---------------------------- MODULE Spec2Model ----------------------------
(***************************************************************************)
(* Well-formedness obligation generator of chalk-solve (src/wf.rs).        *)
(*                                                                         *)
(* Types, where-clauses and goals are records.  An Option<T> is a sequence *)
(* of length 0 (None) or 1 (Some), as the code itself consumes it through  *)
(* into_iter().  A computation that can panic yields a record              *)
(* [panic, ...]; a panic aborts the enclosing call.                        *)
(***************************************************************************)
EXTENDS Integers, Sequences, FiniteSets

VARIABLES
    db,         \* the declaration store (RustIrDatabase) the call reads
    op,         \* the operation last invoked
    arg,        \* its argument
    ret,        \* [aborted, val]: whether it panicked, else what it returned
    submitted,  \* the closed goals handed to the solver during the call
    outcome     \* what the solver answered: "None", "Ambiguous", "Unique"

vars == <<db, op, arg, ret, submitted, outcome>>

-----------------------------------------------------------------------------
(* Bounds of the checked instances. *)

\* nesting depth of the types handed to InputTypeCollector::types_in
MaxDepth == 3

\* number of fields of the struct under verification
MaxFields == 3

-----------------------------------------------------------------------------
(* chalk_ir types (TyData), de Bruijn indexed. *)

BoundVar(d, i) == [tag |-> "BoundVar", debruijn |-> d, index |-> i]

Placeholder(i) == [tag |-> "Placeholder", index |-> i]

InferenceVar == [tag |-> "InferenceVar"]

\* TypeName::Adt(id), or another type name (scalar, tuple, ...)
AdtName(id) == [kind |-> "Adt", id |-> id]

ScalarName == [kind |-> "Scalar", id |-> 0]

Apply(name, args) == [tag |-> "Apply", name |-> name, args |-> args]

Projection(assoc, args) == [tag |-> "Projection", assoc |-> assoc, args |-> args]

Opaque(id, args) == [tag |-> "Opaque", opaque |-> id, args |-> args]

\* Fn { num_binders, substitution }: the signature sits under one binder
Function(args) == [tag |-> "Function", args |-> args]

\* DynTy { bounds: Binders<QuantifiedWhereClauses> }
Dyn(clauses) == [tag |-> "Dyn", clauses |-> clauses]

TraitRef(trait, args) == [trait |-> trait, args |-> args]

\* A QuantifiedWhereClause: the where-clause under its own (empty) binder.
Implemented(trait, args) == [wc |-> "Implemented", trait |-> trait, args |-> args]

AliasEq(alias, ty) == [wc |-> "AliasEq", alias |-> alias, ty |-> ty]

SelfType(tr) == tr.args[1]

IsAdtApply(ty) == ty.tag = "Apply" /\ ty.name.kind = "Adt"

-----------------------------------------------------------------------------
(* Index shifting (chalk_ir::fold::shift) and substitution.                *)
(* depth counts the binders crossed inside the term being folded: one for  *)
(* a function type, two for the clauses of a dyn type (its own binder and  *)
(* the clause's).                                                          *)

RECURSIVE CanShiftOut(_, _, _)
CanShiftOut(ty, adj, depth) ==
    CASE ty.tag = "BoundVar" -> ty.debruijn < depth \/ ty.debruijn >= depth + adj
      [] ty.tag = "Function" ->
            \A k \in 1..Len(ty.args) : CanShiftOut(ty.args[k], adj, depth + 1)
      [] ty.tag \in {"Apply", "Projection", "Opaque"} ->
            \A k \in 1..Len(ty.args) : CanShiftOut(ty.args[k], adj, depth)
      [] ty.tag = "Dyn" ->
            \A k \in 1..Len(ty.clauses) :
                LET c == ty.clauses[k] IN
                IF c.wc = "Implemented"
                THEN \A j \in 1..Len(c.args) : CanShiftOut(c.args[j], adj, depth + 2)
                ELSE /\ CanShiftOut(c.alias, adj, depth + 2)
                     /\ CanShiftOut(c.ty, adj, depth + 2)
      [] OTHER -> TRUE

\* move every variable free at depth by `by` binders, outwards or inwards
RECURSIVE ShiftBy(_, _, _, _)
ShiftBy(ty, out, by, depth) ==
    CASE ty.tag = "BoundVar" ->
            IF ty.debruijn < depth THEN ty
            ELSE BoundVar(IF out THEN ty.debruijn - by ELSE ty.debruijn + by, ty.index)
      [] ty.tag = "Function" ->
            [ty EXCEPT !.args = [k \in 1..Len(ty.args) |->
                                    ShiftBy(ty.args[k], out, by, depth + 1)]]
      [] ty.tag \in {"Apply", "Projection", "Opaque"} ->
            [ty EXCEPT !.args = [k \in 1..Len(ty.args) |->
                                    ShiftBy(ty.args[k], out, by, depth)]]
      [] ty.tag = "Dyn" ->
            [ty EXCEPT !.clauses = [k \in 1..Len(ty.clauses) |->
                LET c == ty.clauses[k] IN
                IF c.wc = "Implemented"
                THEN [c EXCEPT !.args = [j \in 1..Len(c.args) |->
                                            ShiftBy(c.args[j], out, by, depth + 2)]]
                ELSE [c EXCEPT !.alias = ShiftBy(c.alias, out, by, depth + 2),
                               !.ty = ShiftBy(c.ty, out, by, depth + 2)]]]
      [] OTHER -> ty

\* ty.shifted_out_to(interner, outer_binder): Some(ty') or None
shifted_out_to(ty, outer_binder) ==
    IF CanShiftOut(ty, outer_binder, 0)
    THEN <<ShiftBy(ty, TRUE, outer_binder, 0)>>
    ELSE <<>>

shifted_in(ty) == ShiftBy(ty, FALSE, 1, 0)

-----------------------------------------------------------------------------
(* InputTypeCollector *)

Collected(types) == [panic |-> FALSE, types |-> types]

Panicked == [panic |-> TRUE, types |-> <<>>]

\* two visits in sequence on the same collector
Then(r1, r2) ==
    IF r1.panic \/ r2.panic THEN Panicked ELSE Collected(r1.types \o r2.types)

\* push_ty pushing the type as it stands when it cannot be shifted out
push_ty_NoUnwrap(ty, outer_binder) ==
    LET s == shifted_out_to(ty, outer_binder) IN
    IF s = <<>> THEN Collected(<<ty>>) ELSE Collected(<<s[1]>>)

\* the closure push_ty of visit_ty: push the type shifted out, unwrap()
push_ty(ty, outer_binder) ==
    LET s == shifted_out_to(ty, outer_binder) IN
    IF s = <<>> THEN Panicked ELSE Collected(<<s[1]>>)

RECURSIVE visit_ty(_, _), visit_tys(_, _), visit_where_clause(_, _), visit_qwcs(_, _)

\* a substitution, or a field list: each type in order
visit_tys(tys, outer_binder) ==
    IF tys = <<>> THEN Collected(<<>>)
    ELSE Then(visit_ty(Head(tys), outer_binder), visit_tys(Tail(tys), outer_binder))

\* visit_ty with the function arm treated like an application
visit_ty_FunctionRecorded(ty, outer_binder) ==
    CASE ty.tag \in {"Apply", "Projection", "Opaque"} ->
            Then(push_ty(ty, outer_binder), visit_tys(ty.args, outer_binder))
      [] ty.tag = "Dyn" ->
            Then(push_ty(ty, outer_binder), visit_qwcs(ty.clauses, outer_binder + 1))
      [] ty.tag = "Placeholder" -> push_ty(ty, outer_binder)
      [] ty.tag = "BoundVar" -> Collected(<<>>)
      [] ty.tag = "Function" -> Then(push_ty(ty, outer_binder), visit_tys(ty.args, outer_binder + 1))
      [] ty.tag = "InferenceVar" -> Panicked

visit_ty(ty, outer_binder) ==
    CASE ty.tag \in {"Apply", "Projection", "Opaque"} ->
            Then(push_ty(ty, outer_binder), visit_tys(ty.args, outer_binder))
      [] ty.tag = "Dyn" ->
            Then(push_ty(ty, outer_binder), visit_qwcs(ty.clauses, outer_binder + 1))
      [] ty.tag = "Placeholder" -> push_ty(ty, outer_binder)
      [] ty.tag = "BoundVar" -> Collected(<<>>)
      [] ty.tag = "Function" -> Collected(<<>>)
      [] ty.tag = "InferenceVar" -> Panicked

visit_where_clause(where_clause, outer_binder) ==
    IF where_clause.wc = "AliasEq"
    THEN visit_ty(where_clause.alias, outer_binder)
    ELSE visit_tys(where_clause.args, outer_binder)

\* a list of quantified where-clauses: each clause under its own binder
visit_qwcs(qwcs, outer_binder) ==
    IF qwcs = <<>> THEN Collected(<<>>)
    ELSE Then(visit_where_clause(Head(qwcs), outer_binder + 1),
              visit_qwcs(Tail(qwcs), outer_binder))

\* types_in(interner, value), by the kind of value the code passes
types_in_ty(ty) == visit_ty(ty, 0)

types_in_trait_ref(trait_ref) == visit_tys(trait_ref.args, 0)

types_in_where_clauses(where_clauses) == visit_qwcs(where_clauses, 0)

types_in_fields_where_clauses(fields, where_clauses) ==
    Then(visit_tys(fields, 0), visit_qwcs(where_clauses, 0))

-----------------------------------------------------------------------------
(* Binders::substitute: instantiate the variables of the outermost binder  *)
(* with params, and bring the other free variables one binder out.         *)

RECURSIVE Subst(_, _, _)
Subst(ty, params, depth) ==
    CASE ty.tag = "BoundVar" ->
            IF ty.debruijn < depth THEN ty
            ELSE IF ty.debruijn = depth
                 THEN ShiftBy(params[ty.index + 1], FALSE, depth, 0)
                 ELSE BoundVar(ty.debruijn - 1, ty.index)
      [] ty.tag = "Function" ->
            [ty EXCEPT !.args = [k \in 1..Len(ty.args) |->
                                    Subst(ty.args[k], params, depth + 1)]]
      [] ty.tag \in {"Apply", "Projection", "Opaque"} ->
            [ty EXCEPT !.args = [k \in 1..Len(ty.args) |->
                                    Subst(ty.args[k], params, depth)]]
      [] ty.tag = "Dyn" ->
            [ty EXCEPT !.clauses = [k \in 1..Len(ty.clauses) |->
                LET c == ty.clauses[k] IN
                IF c.wc = "Implemented"
                THEN [c EXCEPT !.args = [j \in 1..Len(c.args) |->
                                            Subst(c.args[j], params, depth + 2)]]
                ELSE [c EXCEPT !.alias = Subst(c.alias, params, depth + 2),
                               !.ty = Subst(c.ty, params, depth + 2)]]]
      [] OTHER -> ty

SubstTys(tys, params) == [k \in 1..Len(tys) |-> Subst(tys[k], params, 0)]

SubstTraitRef(tr, params) == TraitRef(tr.trait, SubstTys(tr.args, params))

\* a quantified where-clause: its content sits one binder further in
SubstQwc(c, params) ==
    IF c.wc = "Implemented"
    THEN [c EXCEPT !.args = [j \in 1..Len(c.args) |-> Subst(c.args[j], params, 1)]]
    ELSE [c EXCEPT !.alias = Subst(c.alias, params, 1), !.ty = Subst(c.ty, params, 1)]

SubstQwcs(cs, params) == [k \in 1..Len(cs) |-> SubstQwc(cs[k], params)]

\* the identity substitution [0 => ^0.0, 1 => ^0.1, ..] of a binder of n
IdentitySubst(n) == [k \in 1..n |-> BoundVar(0, k - 1)]

-----------------------------------------------------------------------------
(* Goals (chalk_ir::GoalData) and the GoalBuilder combinators. *)

All(goals) == [g |-> "All", goals |-> goals]

Implies(hyps, goal) == [g |-> "Implies", hyps |-> hyps, goal |-> goal]

Forall(n, goal) == [g |-> "Forall", n |-> n, goal |-> goal]

Exists(n, goal) == [g |-> "Exists", n |-> n, goal |-> goal]

Not(goal) == [g |-> "Not", goal |-> goal]

CannotProve == [g |-> "CannotProve"]

EqGoal(a, b) == [g |-> "Eq", a |-> a, b |-> b]

ImplementedGoal(tr) == [g |-> "Implemented", tr |-> tr]

HoldsAliasEq(alias, ty) == [g |-> "AliasEq", alias |-> alias, ty |-> ty]

WellFormedTy(ty) == [g |-> "WellFormedTy", ty |-> ty]

WellFormedTrait(tr) == [g |-> "WellFormedTrait", tr |-> tr]

FromEnvTy(ty) == [g |-> "FromEnvTy", ty |-> ty]

FromEnvTrait(tr) == [g |-> "FromEnvTrait", tr |-> tr]

\* QuantifiedWhereClause::into_from_env_goal, under the clause's binder
into_from_env_goal(qwc) ==
    IF qwc.wc = "Implemented"
    THEN Forall(0, FromEnvTrait(TraitRef(qwc.trait, qwc.args)))
    ELSE Forall(0, HoldsAliasEq(qwc.alias, qwc.ty))

\* QuantifiedWhereClause::into_well_formed_goal, under the clause's binder
into_well_formed_goal(qwc) ==
    IF qwc.wc = "Implemented"
    THEN Forall(0, WellFormedTrait(TraitRef(qwc.trait, qwc.args)))
    ELSE Forall(0, HoldsAliasEq(qwc.alias, qwc.ty))

MapSeq(F(_), s) == [k \in 1..Len(s) |-> F(s[k])]

-----------------------------------------------------------------------------
(* The declaration store. *)

\* db.trait_datum(trait_id).well_known
well_known(store, trait_id) == store.traits[trait_id]

\* db.well_known_trait_id(kind)
well_known_trait_id(store, kind) ==
    LET ts == {t \in DOMAIN store.traits : store.traits[t] = <<kind>>} IN
    IF ts = {} THEN <<>> ELSE <<CHOOSE t \in ts : TRUE>>

adt_datum(store, adt_id) == store.adts[adt_id]

impl_datum(store, impl_id) == store.impls[impl_id]

associated_ty_value(store, id) == store.assoc_values[id]

associated_ty_data(store, id) == store.assoc_data[id]

is_positive(impl) == impl.polarity = "Positive"

\* ImplDatum::self_type_adt_id
self_type_adt_id(impl) ==
    LET ty == SelfType(impl.trait_ref) IN
    IF IsAdtApply(ty) THEN <<ty.name.id>> ELSE <<>>

-----------------------------------------------------------------------------
(* WfWellKnownGoals *)

struct_sized_constraint_NoTail(store, fields) ==
    IF Len(fields) <= 1 THEN <<>>
    ELSE LET sized_trait == well_known_trait_id(store, "SizedTrait") IN
         IF sized_trait = <<>> THEN <<>>
         ELSE <<All([k \in 1..Len(fields) |->
                        ImplementedGoal(TraitRef(sized_trait[1], <<fields[k]>>))])>>

struct_sized_constraint(store, fields) ==
    IF Len(fields) <= 1 THEN <<>>
    ELSE LET sized_trait == well_known_trait_id(store, "SizedTrait") IN
         IF sized_trait = <<>> THEN <<>>
         ELSE <<All([k \in 1..(Len(fields) - 1) |->
                        ImplementedGoal(TraitRef(sized_trait[1], <<fields[k]>>))])>>

copy_impl_constraint_NoDrop(store, trait_ref) ==
    LET ty == SelfType(trait_ref) IN
    IF ~IsAdtApply(ty) THEN <<>>
    ELSE LET fields == SubstTys(adt_datum(store, ty.name.id).fields, ty.args) IN
         <<All([k \in 1..Len(fields) |->
                    ImplementedGoal(TraitRef(trait_ref.trait, <<fields[k]>>))])>>

copy_impl_constraint(store, trait_ref) ==
    LET ty == SelfType(trait_ref) IN
    IF ~IsAdtApply(ty) THEN <<>>
    ELSE LET drop == well_known_trait_id(store, "DropTrait")
             neg_drop_goal ==
                 IF drop = <<>> THEN <<>>
                 ELSE <<Not(ImplementedGoal(TraitRef(drop[1], <<ty>>)))>>
             fields == SubstTys(adt_datum(store, ty.name.id).fields, ty.args)
         IN <<All([k \in 1..Len(fields) |->
                      ImplementedGoal(TraitRef(trait_ref.trait, <<fields[k]>>))]
                  \o neg_drop_goal)>>

\* drop_impl_constraint assuming the impl's own where-clauses as well
drop_impl_constraint_OwnClauses(store, impl) ==
    IF self_type_adt_id(impl) = <<>> THEN <<CannotProve>>
    ELSE LET adt_id == self_type_adt_id(impl)[1]
             adt == adt_datum(store, adt_id)
             self == SelfType(impl.trait_ref)
             implied_by_adt_def_goal ==
                 Forall(impl.n,
                    Implies(<<FromEnvTy(self)>> \o MapSeq(into_from_env_goal, impl.where_clauses),
                            All(MapSeq(into_well_formed_goal, impl.where_clauses))))
             def_adt == Apply(AdtName(adt_id), IdentitySubst(adt.n))
             eq_goal == Forall(adt.n, Exists(impl.n, EqGoal(shifted_in(def_adt), self)))
         IN <<All(<<implied_by_adt_def_goal, eq_goal>>)>>

drop_impl_constraint(store, impl) ==
    IF self_type_adt_id(impl) = <<>> THEN <<CannotProve>>
    ELSE LET adt_id == self_type_adt_id(impl)[1]
             adt == adt_datum(store, adt_id)
             self == SelfType(impl.trait_ref)
             \* forall<ImplP1...ImplPn> { FromEnv(ImplSelfType) => All(ImplWhereClauses) }
             implied_by_adt_def_goal ==
                 Forall(impl.n,
                    Implies(<<FromEnvTy(self)>>,
                            All(MapSeq(into_well_formed_goal, impl.where_clauses))))
             \* forall<StructP1..StructPN> { exists<ImplP1...ImplPn> { .. = .. } }
             def_adt == Apply(AdtName(adt_id), IdentitySubst(adt.n))
             eq_goal == Forall(adt.n, Exists(impl.n, EqGoal(shifted_in(def_adt), self)))
         IN <<All(<<implied_by_adt_def_goal, eq_goal>>)>>

inside_impl(store, trait_ref) ==
    LET wk == well_known(store, trait_ref.trait) IN
    IF wk = <<>> THEN <<>>
    ELSE IF wk[1] = "CopyTrait" THEN copy_impl_constraint(store, trait_ref)
    ELSE <<>>

outside_impl_SizedAllowed(store, impl) ==
    LET wk == well_known(store, impl.trait_ref.trait) IN
    IF wk = <<>> THEN <<>>
    ELSE IF wk[1] = "DropTrait" THEN drop_impl_constraint(store, impl)
    ELSE <<>>

outside_impl(store, impl) ==
    LET wk == well_known(store, impl.trait_ref.trait) IN
    IF wk = <<>> THEN <<>>
    ELSE IF wk[1] = "SizedTrait" THEN <<CannotProve>>
    ELSE IF wk[1] = "DropTrait" THEN drop_impl_constraint(store, impl)
    ELSE <<>>

-----------------------------------------------------------------------------
(* Obligation assembler *)

Env(clauses) == [panic |-> FALSE, clauses |-> clauses]

EnvPanicked == [panic |-> TRUE, clauses |-> <<>>]

\* impl_wf_environment taking the input types of the self type only
impl_wf_environment_SelfOnly(where_clauses, trait_ref) ==
    LET wc == MapSeq(into_from_env_goal, where_clauses)
        types == types_in_ty(SelfType(trait_ref))
    IN IF types.panic THEN EnvPanicked
       ELSE Env(wc \o MapSeq(FromEnvTy, types.types))

impl_wf_environment(where_clauses, trait_ref) ==
    LET wc == MapSeq(into_from_env_goal, where_clauses)
        types == types_in_trait_ref(trait_ref)
    IN IF types.panic THEN EnvPanicked
       ELSE Env(wc \o MapSeq(FromEnvTy, types.types))

Returned(val) == [aborted |-> FALSE, val |-> val]

Aborted == [aborted |-> TRUE, val |-> <<>>]

\* impl_header_wf_goal without the polarity test
impl_header_wf_goal_AnyPolarity(store, impl_id) ==
    LET impl == impl_datum(store, impl_id)
        trait_ref == impl.trait_ref
        trait_constraint_goal == inside_impl(store, trait_ref)
        env == impl_wf_environment(impl.where_clauses, trait_ref)
        types == types_in_where_clauses(impl.where_clauses)
        goals == MapSeq(WellFormedTy, types.types)
                    \o <<WellFormedTrait(trait_ref)>> \o trait_constraint_goal
        well_formed_goal == Forall(impl.n, Implies(env.clauses, All(goals)))
    IN IF env.panic \/ types.panic THEN Aborted
       ELSE Returned(<<All(<<well_formed_goal>> \o outside_impl(store, impl))>>)

impl_header_wf_goal(store, impl_id) ==
    LET impl == impl_datum(store, impl_id)
        trait_ref == impl.trait_ref
        trait_constraint_goal == inside_impl(store, trait_ref)
        env == impl_wf_environment(impl.where_clauses, trait_ref)
        types == types_in_where_clauses(impl.where_clauses)
        goals == MapSeq(WellFormedTy, types.types)
                    \o <<WellFormedTrait(trait_ref)>> \o trait_constraint_goal
        \* forall<P0...Pn> { if (WC && input types are well formed) { ... } }
        well_formed_goal == Forall(impl.n, Implies(env.clauses, All(goals)))
    IN IF ~is_positive(impl) THEN Returned(<<>>)
       ELSE IF env.panic \/ types.panic THEN Aborted
       ELSE Returned(<<All(<<well_formed_goal>> \o outside_impl(store, impl))>>)

\* db.impl_parameters_and_projection_from_associated_ty_value: the impl's
\* parameters are the last impl.n of the value's parameters; the projection
\* is applied to the value's own parameters, then the impl's trait reference.
impl_parameters_and_projection(store, parameters, assoc_ty) ==
    LET impl == impl_datum(store, assoc_ty.impl_id)
        own == Len(parameters) - impl.n
        impl_parameters == SubSeq(parameters, own + 1, Len(parameters))
        trait_ref == SubstTraitRef(impl.trait_ref, impl_parameters)
    IN [impl_parameters |-> impl_parameters,
        projection |-> Projection(assoc_ty.associated_ty_id,
                                  SubSeq(parameters, 1, own) \o trait_ref.args)]

\* QuantifiedInlineBound::into_where_clauses: a trait bound becomes
\* Implemented(self_ty: Trait<args>); an alias-eq bound that and the
\* equality of the projection with its value
into_where_clauses(qb, self_ty) ==
    LET self == shifted_in(self_ty)
        implemented == Implemented(qb.trait, <<self>> \o qb.args)
    IN IF qb.b = "TraitBound" THEN <<implemented>>
       ELSE <<implemented,
              AliasEq(Projection(qb.assoc, <<self>> \o qb.args), qb.value)>>

SubstBound(qb, params) ==
    IF qb.b = "TraitBound"
    THEN [qb EXCEPT !.args = [j \in 1..Len(qb.args) |-> Subst(qb.args[j], params, 1)]]
    ELSE [qb EXCEPT !.args = [j \in 1..Len(qb.args) |-> Subst(qb.args[j], params, 1)],
                    !.value = Subst(qb.value, params, 1)]

RECURSIVE Flatten(_)
Flatten(ss) == IF ss = <<>> THEN <<>> ELSE Head(ss) \o Flatten(Tail(ss))

\* compute_assoc_ty_goal with the bound goals next to the inner implication
compute_assoc_ty_goal_BoundsOutside(store, assoc_ty_id) ==
    LET assoc_ty == associated_ty_value(store, assoc_ty_id)
        value_ty == assoc_ty.ty
        pp == impl_parameters_and_projection(store, IdentitySubst(assoc_ty.n), assoc_ty)
        impl == impl_datum(store, assoc_ty.impl_id)
        impl_trait_ref == SubstTraitRef(impl.trait_ref, pp.impl_parameters)
        impl_where_clauses == SubstQwcs(impl.where_clauses, pp.impl_parameters)
        impl_wf_clauses == impl_wf_environment(impl_where_clauses, impl_trait_ref)
        assoc_ty_datum == associated_ty_data(store, pp.projection.assoc)
        defn_bounds ==
            [k \in 1..Len(assoc_ty_datum.bounds) |->
                SubstBound(assoc_ty_datum.bounds[k], pp.projection.args)]
        defn_where_clauses == SubstQwcs(assoc_ty_datum.where_clauses, pp.projection.args)
        types == types_in_ty(value_ty)
        wf_goals == MapSeq(WellFormedTy, types.types)
        bound_goals ==
            MapSeq(into_well_formed_goal,
                   Flatten([k \in 1..Len(defn_bounds) |->
                               into_where_clauses(defn_bounds[k], value_ty)]))
    IN IF impl_wf_clauses.panic \/ types.panic THEN Aborted
       ELSE Returned(<<
            Forall(assoc_ty.n,
                Implies(impl_wf_clauses.clauses,
                    All(<<Implies(MapSeq(into_from_env_goal, defn_where_clauses),
                                  All(wf_goals))>> \o bound_goals)))>>)

compute_assoc_ty_goal(store, assoc_ty_id) ==
    LET assoc_ty == associated_ty_value(store, assoc_ty_id)
        value_ty == assoc_ty.ty
        pp == impl_parameters_and_projection(store, IdentitySubst(assoc_ty.n), assoc_ty)
        impl == impl_datum(store, assoc_ty.impl_id)
        impl_trait_ref == SubstTraitRef(impl.trait_ref, pp.impl_parameters)
        impl_where_clauses == SubstQwcs(impl.where_clauses, pp.impl_parameters)
        impl_wf_clauses == impl_wf_environment(impl_where_clauses, impl_trait_ref)
        assoc_ty_datum == associated_ty_data(store, pp.projection.assoc)
        defn_bounds ==
            [k \in 1..Len(assoc_ty_datum.bounds) |->
                SubstBound(assoc_ty_datum.bounds[k], pp.projection.args)]
        defn_where_clauses == SubstQwcs(assoc_ty_datum.where_clauses, pp.projection.args)
        types == types_in_ty(value_ty)
        wf_goals == MapSeq(WellFormedTy, types.types)
        bound_goals ==
            MapSeq(into_well_formed_goal,
                   Flatten([k \in 1..Len(defn_bounds) |->
                               into_where_clauses(defn_bounds[k], value_ty)]))
    IN IF impl_wf_clauses.panic \/ types.panic THEN Aborted
       ELSE Returned(<<
            Forall(assoc_ty.n,
                Implies(impl_wf_clauses.clauses,
                    Implies(MapSeq(into_from_env_goal, defn_where_clauses),
                        All(wf_goals \o bound_goals))))>>)

-----------------------------------------------------------------------------
(* WfSolver *)

\* verify_adt_decl's goal with the Sized constraint next to the implication
adt_wg_goal_SizedOutside(store, adt_id) ==
    LET struct_datum == adt_datum(store, adt_id)
        fields == struct_datum.fields
        where_clauses == struct_datum.where_clauses
        sized_constraint_goal == struct_sized_constraint(store, fields)
        types == types_in_fields_where_clauses(fields, where_clauses)
    IN IF types.panic THEN Aborted
       ELSE Returned(
            Forall(struct_datum.n,
                All(<<Implies(MapSeq(into_from_env_goal, where_clauses),
                              All(MapSeq(WellFormedTy, types.types)))>>
                    \o sized_constraint_goal)))

\* the goal verify_adt_decl builds (lines 160-193)
adt_wg_goal(store, adt_id) ==
    LET struct_datum == adt_datum(store, adt_id)
        fields == struct_datum.fields
        where_clauses == struct_datum.where_clauses
        sized_constraint_goal == struct_sized_constraint(store, fields)
        types == types_in_fields_where_clauses(fields, where_clauses)
    IN IF types.panic THEN Aborted
       ELSE Returned(
            Forall(struct_datum.n,
                Implies(MapSeq(into_from_env_goal, where_clauses),
                    All(MapSeq(WellFormedTy, types.types) \o sized_constraint_goal))))

\* the associated-type goals of an impl, in listing order (filter_map)
RECURSIVE assoc_ty_goals(_, _)
assoc_ty_goals(store, ids) ==
    IF ids = <<>> THEN Returned(<<>>)
    ELSE LET first == compute_assoc_ty_goal(store, Head(ids))
             rest == assoc_ty_goals(store, Tail(ids))
         IN IF first.aborted \/ rest.aborted THEN Aborted
            ELSE Returned(first.val \o rest.val)

\* verify_trait_impl's goal with the last associated-type value left out
impl_goal_DropLast(store, impl_id) ==
    LET impl == impl_datum(store, impl_id)
        ids == impl.associated_ty_value_ids
        header == impl_header_wf_goal(store, impl_id)
        assoc == assoc_ty_goals(store, IF ids = <<>> THEN ids ELSE SubSeq(ids, 1, Len(ids) - 1))
    IN IF header.aborted \/ assoc.aborted THEN Aborted
       ELSE Returned(All(header.val \o assoc.val))

\* the goal verify_trait_impl builds (lines 215-223)
impl_goal(store, impl_id) ==
    LET impl == impl_datum(store, impl_id)
        header == impl_header_wf_goal(store, impl_id)
        assoc == assoc_ty_goals(store, impl.associated_ty_value_ids)
    IN IF header.aborted \/ assoc.aborted THEN Aborted
       ELSE Returned(All(header.val \o assoc.val))

\* the answers of self.solver_choice.into_solver().solve(..)
SolverOutcomes == {"None", "Ambiguous", "Unique"}

is_legal_AnySolution(solution) == solution # "None"

\* match solve(..) { Some(sol) => sol.is_unique(), None => false }
is_legal(solution) == solution = "Unique"

Ok == [r |-> "Ok"]

IllFormedTypeDecl(adt_id) == [r |-> "Err", kind |-> "IllFormedTypeDecl", adt |-> adt_id]

IllFormedTraitImpl(trait_id) == [r |-> "Err", kind |-> "IllFormedTraitImpl", trait |-> trait_id]

\* lines 202-206
adt_verdict(adt_id, solution) ==
    IF ~is_legal(solution) THEN IllFormedTypeDecl(adt_id) ELSE Ok

\* verify_trait_impl naming the trait of the store's first impl
impl_verdict_FirstImpl(store, impl_id, solution) ==
    IF is_legal(solution) THEN Ok
    ELSE IllFormedTraitImpl(impl_datum(store, 1).trait_ref.trait)

\* lines 236-240
impl_verdict(store, impl_id, solution) ==
    IF is_legal(solution) THEN Ok
    ELSE IllFormedTraitImpl(impl_datum(store, impl_id).trait_ref.trait)

-----------------------------------------------------------------------------
(* The stores and inputs of the checked instances. *)

TraitIds == {"Foo", "Sized", "Copy", "Drop", "Clone"}

\* #[lang(..)] of each trait declaration
WellKnownOf(t) ==
    CASE t = "Sized" -> <<"SizedTrait">>
      [] t = "Copy" -> <<"CopyTrait">>
      [] t = "Drop" -> <<"DropTrait">>
      [] t = "Clone" -> <<"CloneTrait">>
      [] OTHER -> <<>>

Declared(ts) == [t \in ts |-> WellKnownOf(t)]

\* struct Vec<T> { }
VecAdt == [n |-> 1, fields |-> <<>>, where_clauses |-> <<>>]

\* struct S<T> { a: T, b: Vec<T> }
PairAdt ==
    [n |-> 1,
     fields |-> <<BoundVar(0, 0), Apply(AdtName(2), <<BoundVar(0, 0)>>)>>,
     where_clauses |-> <<>>]

\* T, Vec<T>, fn(Vec<T>)
FieldTys ==
    { BoundVar(0, 0),
      Apply(AdtName(2), <<BoundVar(0, 0)>>),
      Function(<<Apply(AdtName(2), <<BoundVar(1, 0)>>)>>) }

\* dyn Foo<Vec<Self>>: Vec<Self> mentions the variable the dyn type binds
EscapingDyn ==
    Dyn(<<Implemented("Foo", <<BoundVar(1, 0),
                               Apply(AdtName(2), <<BoundVar(1, 0)>>)>>)>>)

RECURSIVE SeqsUpTo(_, _)
SeqsUpTo(S, n) ==
    IF n = 0 THEN {<<>>}
    ELSE LET shorter == SeqsUpTo(S, n - 1) IN
         shorter \cup {Append(q, x) : q \in {r \in shorter : Len(r) = n - 1}, x \in S}

AdtWhereClauses ==
    { <<>>,
      <<Implemented("Foo", <<BoundVar(1, 0)>>)>>,
      <<Implemented("Clone", <<BoundVar(1, 0)>>),
        AliasEq(Projection(1, <<BoundVar(1, 0)>>),
                Apply(AdtName(2), <<BoundVar(1, 0)>>))>>,
      <<Implemented("Foo", <<InferenceVar>>)>>,
      <<Implemented("Foo", <<BoundVar(1, 0), EscapingDyn>>)>> }

AdtStores ==
    { [traits |-> Declared(ts),
       adts |-> <<[n |-> 1, fields |-> fs, where_clauses |-> wcs], VecAdt>>,
       impls |-> <<>>, assoc_values |-> <<>>, assoc_data |-> <<>>] :
        ts \in {TraitIds, TraitIds \ {"Sized"}},
        fs \in SeqsUpTo(FieldTys, MaxFields),
        wcs \in AdtWhereClauses }

ImplSelfTys ==
    { Apply(AdtName(1), <<BoundVar(0, 0)>>),
      Apply(AdtName(1), <<Apply(AdtName(2), <<BoundVar(0, 0)>>)>>),
      Apply(ScalarName, <<>>) }

\* no further trait parameter, or the one of `impl<T> Trait<Vec<X>> for ..`
ImplExtraArgs == {<<>>, <<Apply(AdtName(2), <<Placeholder(0)>>)>>, <<EscapingDyn>>}

ImplWhereClauses ==
    { <<>>,
      <<Implemented("Clone", <<BoundVar(1, 0)>>)>>,
      <<Implemented("Foo", <<BoundVar(1, 0), Apply(AdtName(2), <<BoundVar(1, 0)>>)>>),
        AliasEq(Projection(1, <<BoundVar(1, 0)>>),
                Apply(AdtName(2), <<Placeholder(0)>>))>>,
      <<Implemented("Foo", <<InferenceVar>>)>>,
      <<Implemented("Foo", <<BoundVar(1, 0), EscapingDyn>>)>> }

ImplAssocIds == {<<>>, <<1>>, <<2, 1>>, <<3>>}

\* type A<U> = Vec<T> (the value's own parameter first, then the impl's),
\* type B = T and type B = Vec<_>, of impl 1
AssocValues ==
    << [impl_id |-> 1, associated_ty_id |-> 1, n |-> 2,
        ty |-> Apply(AdtName(2), <<BoundVar(0, 1)>>)],
       [impl_id |-> 1, associated_ty_id |-> 2, n |-> 1,
        ty |-> BoundVar(0, 0)],
       [impl_id |-> 1, associated_ty_id |-> 2, n |-> 1,
        ty |-> Apply(AdtName(2), <<InferenceVar>>)] >>

\* trait .. { type A<U>: Clone where U: Foo; type B: Foo<Item = Vec<Self>>; }
AssocData ==
    << [n |-> 2,
        bounds |-> <<[b |-> "TraitBound", trait |-> "Clone", args |-> <<>>]>>,
        where_clauses |-> <<Implemented("Foo", <<BoundVar(1, 0)>>)>>],
       [n |-> 1,
        bounds |-> <<[b |-> "AliasEqBound", trait |-> "Foo", args |-> <<>>,
                      assoc |-> 1,
                      value |-> Apply(AdtName(2), <<BoundVar(1, 0)>>)]>>,
        where_clauses |-> <<>>] >>

\* one impl, of any declared trait; the store lacks #[lang(drop)] only
\* under a Copy impl, where copy_impl_constraint looks it up
ImplChoices ==
    { c \in [ts : {TraitIds, TraitIds \ {"Drop"}},
             pol : {"Positive", "Negative"},
             tr : TraitIds,
             self : ImplSelfTys,
             extra : ImplExtraArgs,
             wcs : ImplWhereClauses,
             ids : ImplAssocIds] :
        /\ c.tr \in c.ts
        /\ c.ts = TraitIds \/ c.tr = "Copy"
        /\ c.tr = "Drop" => c.extra = <<>> /\ c.ids = <<>>
        /\ c.extra = <<EscapingDyn>> => c.wcs = <<>>
        /\ c.ids = <<3>> => c.wcs = <<>> /\ c.extra = <<>> }

ImplStores ==
    { [traits |-> Declared(c.ts),
       adts |-> <<PairAdt, VecAdt>>,
       impls |-> <<[polarity |-> c.pol, n |-> 1,
                    trait_ref |-> TraitRef(c.tr, <<c.self>> \o c.extra),
                    where_clauses |-> c.wcs,
                    associated_ty_value_ids |-> c.ids]>>,
       assoc_values |-> AssocValues, assoc_data |-> AssocData] :
        c \in ImplChoices }

\* impl<T> A for S<T> {} and impl<T> B for S<Vec<T>> {} in one store,
\* A and B the same trait or not
TwoImplStores ==
    { [traits |-> Declared(TraitIds),
       adts |-> <<PairAdt, VecAdt>>,
       impls |-> <<[polarity |-> "Positive", n |-> 1,
                    trait_ref |-> TraitRef(a, <<Apply(AdtName(1), <<BoundVar(0, 0)>>)>>),
                    where_clauses |-> <<>>,
                    associated_ty_value_ids |-> <<>>],
                   [polarity |-> "Positive", n |-> 1,
                    trait_ref |-> TraitRef(b,
                        <<Apply(AdtName(1), <<Apply(AdtName(2), <<BoundVar(0, 0)>>)>>)>>),
                    where_clauses |-> <<>>,
                    associated_ty_value_ids |-> <<>>]>>,
       assoc_values |-> AssocValues, assoc_data |-> AssocData] :
        a \in {"Foo", "Clone"}, b \in {"Foo", "Clone"} }

Stores == AdtStores \cup ImplStores \cup TwoImplStores

-----------------------------------------------------------------------------
(* The calls. *)

NoSolve == /\ submitted' = <<>>
           /\ outcome' = "NotCalled"

VerifyAdtDecl ==
    \E adt_id \in DOMAIN db.adts, solution \in SolverOutcomes :
        LET wg_goal == adt_wg_goal(db, adt_id) IN
        /\ op' = "verify_adt_decl"
        /\ arg' = adt_id
        /\ IF wg_goal.aborted
           THEN ret' = Aborted /\ NoSolve
           ELSE /\ submitted' = <<wg_goal.val>>
                /\ outcome' = solution
                /\ ret' = Returned(adt_verdict(adt_id, solution))
        /\ UNCHANGED db

VerifyTraitImpl ==
    \E impl_id \in DOMAIN db.impls, solution \in SolverOutcomes :
        LET goal == impl_goal(db, impl_id) IN
        /\ op' = "verify_trait_impl"
        /\ arg' = impl_id
        /\ IF goal.aborted
           THEN ret' = Aborted /\ NoSolve
           ELSE /\ submitted' = <<goal.val>>
                /\ outcome' = solution
                /\ ret' = Returned(impl_verdict(db, impl_id, solution))
        /\ UNCHANGED db

ImplHeaderWfGoal ==
    \E impl_id \in DOMAIN db.impls :
        /\ op' = "impl_header_wf_goal"
        /\ arg' = impl_id
        /\ ret' = impl_header_wf_goal(db, impl_id)
        /\ NoSolve
        /\ UNCHANGED db

ImplWfEnvironment ==
    \E impl_id \in DOMAIN db.impls :
        LET impl == impl_datum(db, impl_id)
            env == impl_wf_environment(impl.where_clauses, impl.trait_ref)
        IN /\ op' = "impl_wf_environment"
           /\ arg' = impl_id
           /\ ret' = IF env.panic THEN Aborted ELSE Returned(env.clauses)
           /\ NoSolve
           /\ UNCHANGED db

ComputeAssocTyGoal ==
    \E assoc_ty_id \in DOMAIN db.assoc_values :
        /\ op' = "compute_assoc_ty_goal"
        /\ arg' = assoc_ty_id
        /\ ret' = compute_assoc_ty_goal(db, assoc_ty_id)
        /\ NoSolve
        /\ UNCHANGED db

StructSizedConstraint ==
    \E adt_id \in DOMAIN db.adts :
        /\ op' = "struct_sized_constraint"
        /\ arg' = adt_datum(db, adt_id).fields
        /\ ret' = Returned(struct_sized_constraint(db, adt_datum(db, adt_id).fields))
        /\ NoSolve
        /\ UNCHANGED db

\* reached from inside_impl, for a trait declared #[lang(copy)]
CopyImplConstraint ==
    \E impl_id \in DOMAIN db.impls :
        LET trait_ref == impl_datum(db, impl_id).trait_ref IN
        /\ well_known(db, trait_ref.trait) = <<"CopyTrait">>
        /\ op' = "copy_impl_constraint"
        /\ arg' = trait_ref
        /\ ret' = Returned(copy_impl_constraint(db, trait_ref))
        /\ NoSolve
        /\ UNCHANGED db

\* reached from outside_impl, for a trait declared #[lang(drop)]
DropImplConstraint ==
    \E impl_id \in DOMAIN db.impls :
        LET impl == impl_datum(db, impl_id) IN
        /\ well_known(db, impl.trait_ref.trait) = <<"DropTrait">>
        /\ op' = "drop_impl_constraint"
        /\ arg' = impl_id
        /\ ret' = Returned(drop_impl_constraint(db, impl))
        /\ NoSolve
        /\ UNCHANGED db

NotCalled == [aborted |-> FALSE, val |-> <<>>]

Init ==
    /\ db \in Stores
    /\ op = "init"
    /\ arg = <<>>
    /\ ret = NotCalled
    /\ submitted = <<>>
    /\ outcome = "NotCalled"

Next ==
    \/ VerifyAdtDecl
    \/ VerifyTraitImpl
    \/ ImplHeaderWfGoal
    \/ ImplWfEnvironment
    \/ ComputeAssocTyGoal
    \/ StructSizedConstraint
    \/ CopyImplConstraint
    \/ DropImplConstraint

Spec == Init /\ [][Next]_vars

-----------------------------------------------------------------------------
(* InputTypeCollector::types_in on its own: the value is drawn at the      *)
(* start, the call applies the collector to it.                            *)

Leaves == {BoundVar(0, 0), BoundVar(2, 0), Placeholder(0), InferenceVar}

RECURSIVE TypesUpTo(_)
TypesUpTo(d) ==
    IF d = 0 THEN Leaves
    ELSE LET S == TypesUpTo(d - 1) IN
         Leaves
         \cup {Projection(1, <<p>>) : p \in Leaves}
         \cup {Opaque(1, <<p>>) : p \in Leaves}
         \cup {Apply(AdtName(1), <<t>>) : t \in S}
         \cup {Apply(AdtName(2), <<t, Placeholder(1)>>) : t \in S}
         \cup {Function(<<t>>) : t \in S}
         \cup {Dyn(<<Implemented("Foo", <<BoundVar(1, 0), t>>)>>) : t \in S}
         \cup {Dyn(<<AliasEq(Projection(1, <<Placeholder(0)>>), t)>>) : t \in S}

Visitables ==
    {[v |-> "Ty", ty |-> t] : t \in TypesUpTo(MaxDepth)}
    \cup {[v |-> "WhereClauses",
           wcs |-> <<Implemented("Foo", <<BoundVar(1, 0), t>>)>>] :
                t \in TypesUpTo(MaxDepth - 1)}
    \cup {[v |-> "WhereClauses",
           wcs |-> <<AliasEq(Projection(1, <<BoundVar(1, 0)>>), t)>>] :
                t \in TypesUpTo(MaxDepth - 1)}

EmptyStore ==
    [traits |-> Declared({}), adts |-> <<>>, impls |-> <<>>,
     assoc_values |-> <<>>, assoc_data |-> <<>>]

CollectResult(r) == IF r.panic THEN Aborted ELSE Returned(r.types)

TypesInTy ==
    /\ arg.v = "Ty"
    /\ op' = "types_in"
    /\ ret' = CollectResult(types_in_ty(arg.ty))
    /\ NoSolve
    /\ UNCHANGED <<db, arg>>

TypesInWhereClauses ==
    /\ arg.v = "WhereClauses"
    /\ op' = "types_in"
    /\ ret' = CollectResult(types_in_where_clauses(arg.wcs))
    /\ NoSolve
    /\ UNCHANGED <<db, arg>>

InitCollect ==
    /\ db = EmptyStore
    /\ op = "init"
    /\ arg \in Visitables
    /\ ret = NotCalled
    /\ submitted = <<>>
    /\ outcome = "NotCalled"

NextCollect == TypesInTy \/ TypesInWhereClauses

SpecCollect == InitCollect /\ [][NextCollect]_vars

-----------------------------------------------------------------------------
(* Properties. *)

TheImpl == impl_datum(db, arg)

\* C1: verify_adt_decl(id) returns Ok exactly when the solver's answer is a
\* unique solution and IllFormedTypeDecl(id) for an absent or non-unique
\* one; verify_trait_impl maps the answer to Ok / IllFormedTraitImpl by the
\* same rule; the solver is called once.
C1_VerdictFollowsSolver ==
    /\ (op = "verify_adt_decl" /\ ~ret.aborted) =>
          /\ Len(submitted) = 1
          /\ outcome \in SolverOutcomes
          /\ ret.val = Ok <=> outcome = "Unique"
          /\ outcome # "Unique" => ret.val = IllFormedTypeDecl(arg)
    /\ (op = "verify_trait_impl" /\ ~ret.aborted) =>
          /\ Len(submitted) = 1
          /\ outcome \in SolverOutcomes
          /\ ret.val = Ok <=> outcome = "Unique"
          /\ outcome # "Unique" =>
                ret.val.r = "Err" /\ ret.val.kind = "IllFormedTraitImpl"

C1_Witness ==
    /\ op = "verify_trait_impl"
    /\ ~ret.aborted
    /\ outcome = "Ambiguous"
    /\ ret.val.r = "Err"

\* the hypotheses of the implication inside the header goal in ret
HeaderHyps == ret.val[1].goals[1].goal.hyps

HeaderReturned ==
    op = "impl_header_wf_goal" /\ ~ret.aborted /\ ret.val # <<>>

\* the input types of each type of tys on its own, one after the other
InputTypesOfEach(tys) == Flatten([k \in 1..Len(tys) |-> types_in_ty(tys[k]).types])

SizedOnAllButLast ==
    /\ Len(ret.val) = 1
    /\ ret.val[1].g = "All"
    /\ Len(ret.val[1].goals) = Len(arg) - 1
    /\ \A i \in 1..(Len(arg) - 1) :
            /\ ret.val[1].goals[i].g = "Implemented"
            /\ ret.val[1].goals[i].tr.args = <<arg[i]>>
            /\ well_known(db, ret.val[1].goals[i].tr.trait) = <<"SizedTrait">>

\* C3 as stated: no goal for 0 or 1 fields, and for n >= 2 fields the
\* conjunction of the n-1 Sized goals, whatever the store.
C3_SizedTailEveryStore ==
    op = "struct_sized_constraint" =>
        IF Len(arg) <= 1 THEN ret.val = <<>> ELSE SizedOnAllButLast

\* C3 amended: no goal for 0 or 1 fields; for n >= 2 fields the conjunction
\* of the n-1 Sized goals when the store declares a well-known Sized trait,
\* and no goal when it declares none.
C3_SizedTailWhenSizedDeclared ==
    op = "struct_sized_constraint" =>
        IF Len(arg) <= 1 \/ well_known_trait_id(db, "SizedTrait") = <<>>
        THEN ret.val = <<>>
        ELSE SizedOnAllButLast

C3_Witness ==
    /\ op = "struct_sized_constraint"
    /\ Len(arg) = 3
    /\ Len(ret.val) = 1
    /\ Len(ret.val[1].goals) = 2

\* the fields of the ADT that ty applies, with ty's arguments substituted
FieldsOf(ty) == SubstTys(adt_datum(db, ty.name.id).fields, ty.args)

CopyGoals == ret.val[1].goals

\* ret holds a conjunction with Implemented(f: Copy) for every field
CopyOnEveryField ==
    /\ Len(ret.val) = 1
    /\ ret.val[1].g = "All"
    /\ \A i \in 1..Len(FieldsOf(SelfType(arg))) :
            CopyGoals[i] = ImplementedGoal(TraitRef(arg.trait, <<FieldsOf(SelfType(arg))[i]>>))

\* ret's conjunction holds not { Implemented(self type: Drop) }
NegatedDropPresent ==
    \E k \in 1..Len(CopyGoals) :
        /\ CopyGoals[k].g = "Not"
        /\ CopyGoals[k].goal.g = "Implemented"
        /\ CopyGoals[k].goal.tr.args = <<SelfType(arg)>>
        /\ well_known(db, CopyGoals[k].goal.tr.trait) = <<"DropTrait">>

\* C4 as stated: no obligation for a self type that is no ADT application;
\* for S<args>, Copy on every substituted field and the negation of Drop
\* for S<args>, whatever the store.
C4_CopyFieldsAndNoDropEveryStore ==
    op = "copy_impl_constraint" =>
        IF ~IsAdtApply(SelfType(arg)) THEN ret.val = <<>>
        ELSE CopyOnEveryField /\ NegatedDropPresent

\* C4 amended: no obligation for a self type that is no ADT application;
\* for S<args>, Copy on every substituted field, followed by the negation of
\* Drop for S<args> when the store declares a well-known Drop trait and by
\* nothing when it declares none.
C4_CopyFieldsAndNoDropWhenDeclared ==
    op = "copy_impl_constraint" =>
        IF ~IsAdtApply(SelfType(arg)) THEN ret.val = <<>>
        ELSE /\ CopyOnEveryField
             /\ IF well_known_trait_id(db, "DropTrait") = <<>>
                THEN Len(CopyGoals) = Len(FieldsOf(SelfType(arg)))
                ELSE /\ Len(CopyGoals) = Len(FieldsOf(SelfType(arg))) + 1
                     /\ NegatedDropPresent

VecOfVec == Apply(AdtName(2), <<Apply(AdtName(2), <<BoundVar(0, 0)>>)>>)

C4_Witness ==
    /\ op = "copy_impl_constraint"
    /\ SelfType(arg) = Apply(AdtName(1), <<Apply(AdtName(2), <<BoundVar(0, 0)>>)>>)
    /\ Len(ret.val) = 1
    /\ Len(CopyGoals) = 3
    /\ CopyGoals[2] = ImplementedGoal(TraitRef("Copy", <<VecOfVec>>))
    /\ CopyGoals[3] = Not(ImplementedGoal(TraitRef("Drop", <<SelfType(arg)>>)))

DropGoals == ret.val[1].goals

\* the ADT S applied to the parameters of the universal binder, as seen
\* from under the existential binder: S<^1.0, .., ^1.(n-1)>
AdtOnUniversalParams(adt_id) ==
    Apply(AdtName(adt_id), [k \in 1..adt_datum(db, adt_id).n |-> BoundVar(1, k - 1)])

\* forall impl-params. FromEnv(self type) => AND of the well-formed goal of
\* each where-clause of the impl
IsGenericityGoal(goal) ==
    /\ goal.g = "Forall"
    /\ goal.n = TheImpl.n
    /\ goal.goal.g = "Implies"
    /\ goal.goal.hyps = <<FromEnvTy(SelfType(TheImpl.trait_ref))>>
    /\ goal.goal.goal.g = "All"
    /\ Len(goal.goal.goal.goals) = Len(TheImpl.where_clauses)
    /\ \A k \in 1..Len(TheImpl.where_clauses) :
            goal.goal.goal.goals[k] = into_well_formed_goal(TheImpl.where_clauses[k])

\* forall ADT-params. exists impl-params. ADT<ADT-params> = impl self type
IsCoverageGoal(goal) ==
    /\ goal.g = "Forall"
    /\ goal.n = adt_datum(db, SelfType(TheImpl.trait_ref).name.id).n
    /\ goal.goal.g = "Exists"
    /\ goal.goal.n = TheImpl.n
    /\ goal.goal.goal.g = "Eq"
    /\ goal.goal.goal.a = AdtOnUniversalParams(SelfType(TheImpl.trait_ref).name.id)
    /\ goal.goal.goal.b = SelfType(TheImpl.trait_ref)

\* C5: drop_impl_constraint(impl) returns CannotProve when the impl's self
\* type is no ADT application, and otherwise the conjunction of exactly the
\* genericity goal (whose only hypothesis is FromEnv(self type)) and the
\* coverage goal (ADT parameters universal, impl parameters existential).
C5_DropGenericityAndCoverage ==
    op = "drop_impl_constraint" =>
        IF ~IsAdtApply(SelfType(TheImpl.trait_ref))
        THEN ret.val = <<CannotProve>>
        ELSE /\ Len(ret.val) = 1
             /\ ret.val[1].g = "All"
             /\ Len(DropGoals) = 2
             /\ IsGenericityGoal(DropGoals[1])
             /\ IsCoverageGoal(DropGoals[2])

C5_Witness ==
    /\ op = "drop_impl_constraint"
    /\ SelfType(TheImpl.trait_ref) = Apply(AdtName(1), <<Apply(AdtName(2), <<BoundVar(0, 0)>>)>>)
    /\ TheImpl.where_clauses = <<Implemented("Clone", <<BoundVar(1, 0)>>)>>
    /\ Len(ret.val) = 1
    /\ Len(DropGoals) = 2
    /\ DropGoals[1].goal.hyps = <<FromEnvTy(SelfType(TheImpl.trait_ref))>>

\* a CannotProve that no implication and no quantifier guards: the goal
\* itself, or a conjunct of it, at any depth of conjunctions
RECURSIVE HasUnguardedCannotProve(_)
HasUnguardedCannotProve(goal) ==
    \/ goal.g = "CannotProve"
    \/ /\ goal.g = "All"
       /\ \E k \in 1..Len(goal.goals) : HasUnguardedCannotProve(goal.goals[k])

\* a solver that never answers "unique" for a conjunction with CannotProve
SolverRefusesCannotProve ==
    HasUnguardedCannotProve(submitted[1]) => outcome # "Unique"

SizedImplVerified ==
    /\ op = "verify_trait_impl"
    /\ ~ret.aborted
    /\ well_known(db, TheImpl.trait_ref.trait) = <<"SizedTrait">>

\* C6 as stated: for every impl of the well-known Sized trait the submitted
\* goal holds an unguarded CannotProve, so that such a solver never makes
\* the impl legal.
C6_EverySizedImplIllegal ==
    SizedImplVerified =>
        /\ HasUnguardedCannotProve(submitted[1])
        /\ SolverRefusesCannotProve => ret.val # Ok

\* C6 amended: for every positive impl of the well-known Sized trait the
\* submitted goal holds an unguarded CannotProve, so that such a solver
\* never makes the impl legal.
C6_PositiveSizedImplIllegal ==
    (SizedImplVerified /\ is_positive(TheImpl)) =>
        /\ HasUnguardedCannotProve(submitted[1])
        /\ SolverRefusesCannotProve => ret.val # Ok

C6_Witness ==
    /\ SizedImplVerified
    /\ is_positive(TheImpl)
    /\ outcome = "Ambiguous"
    /\ ret.val = IllFormedTraitImpl("Sized")
    /\ submitted[1].goals[1].goals[2] = CannotProve

\* the number of goals the header contributes
HeaderCount == IF is_positive(TheImpl) THEN 1 ELSE 0

\* C7: the goal verify_trait_impl submits is the conjunction of the header
\* goal, when there is one, and of the goal of each associated-type value
\* listed on the impl, in listing order, none skipped, nothing else.
C7_HeaderThenEveryAssocValue ==
    (op = "verify_trait_impl" /\ ~ret.aborted) =>
        /\ submitted[1].g = "All"
        /\ Len(submitted[1].goals) = HeaderCount + Len(TheImpl.associated_ty_value_ids)
        /\ is_positive(TheImpl) =>
                <<submitted[1].goals[1]>> = impl_header_wf_goal(db, arg).val
        /\ \A k \in 1..Len(TheImpl.associated_ty_value_ids) :
                <<submitted[1].goals[HeaderCount + k]>>
                    = compute_assoc_ty_goal(db, TheImpl.associated_ty_value_ids[k]).val

C7_Witness ==
    /\ op = "verify_trait_impl"
    /\ ~ret.aborted
    /\ is_positive(TheImpl)
    /\ TheImpl.associated_ty_value_ids = <<2, 1>>
    /\ Len(submitted[1].goals) = 3
    /\ submitted[1].goals[2].n = 1
    /\ submitted[1].goals[3].n = 2

\* C10: impl_header_wf_goal returns none for every negative impl, whatever
\* its trait, self type and where-clauses, and a goal for every positive
\* impl (unless the traversal of the header aborts the call); the goal
\* submitted for a negative impl holds its associated-type goals only, no
\* built-in constraint.
C10_HeaderGoalIffPositive ==
    /\ op = "impl_header_wf_goal" =>
          IF is_positive(TheImpl)
          THEN ret.aborted \/ Len(ret.val) = 1
          ELSE ret = Returned(<<>>)
    /\ (op = "verify_trait_impl" /\ ~ret.aborted /\ ~is_positive(TheImpl)) =>
          /\ Len(submitted[1].goals) = Len(TheImpl.associated_ty_value_ids)
          /\ ~HasUnguardedCannotProve(submitted[1])

C10_Witness ==
    /\ op = "impl_header_wf_goal"
    /\ ~is_positive(TheImpl)
    /\ TheImpl.trait_ref.trait = "Sized"
    /\ ret = Returned(<<>>)

\* a type found d binders below the root, in the root's coordinates
AtRoot(ty, d) == IF CanShiftOut(ty, d, 0) THEN ShiftBy(ty, TRUE, d, 0) ELSE ty

\* Every occurrence of an Applied, Dynamic, Projection, Opaque or
\* Placeholder type outside any Function type, in pre-order (a type before
\* what its arguments or clauses hold, siblings left to right), duplicates
\* kept.
RECURSIVE OccurrencesIn(_, _), OccurrencesInEach(_, _), OccurrencesInClauses(_, _)
OccurrencesIn(ty, d) ==
    CASE ty.tag \in {"Apply", "Projection", "Opaque"} ->
            <<AtRoot(ty, d)>> \o OccurrencesInEach(ty.args, d)
      [] ty.tag = "Dyn" -> <<AtRoot(ty, d)>> \o OccurrencesInClauses(ty.clauses, d + 2)
      [] ty.tag = "Placeholder" -> <<ty>>
      [] OTHER -> <<>>

OccurrencesInEach(tys, d) ==
    IF tys = <<>> THEN <<>>
    ELSE OccurrencesIn(Head(tys), d) \o OccurrencesInEach(Tail(tys), d)

OccurrencesInClauses(cs, d) ==
    IF cs = <<>> THEN <<>>
    ELSE (IF Head(cs).wc = "Implemented"
          THEN OccurrencesInEach(Head(cs).args, d)
          ELSE OccurrencesIn(Head(cs).alias, d) \o OccurrencesIn(Head(cs).ty, d))
         \o OccurrencesInClauses(Tail(cs), d)

\* C8: types_in returns, in pre-order and with duplicates kept, every
\* occurrence of an Applied, Dynamic, Projection, Opaque or Placeholder type
\* that is not nested inside a Function type, and no bound variable; an
\* application of a bound parameter alone yields just that application.
C8_EveryOccurrenceInPreOrder ==
    (op = "types_in" /\ ~ret.aborted) =>
        /\ ret.val = IF arg.v = "Ty" THEN OccurrencesIn(arg.ty, 0)
                     ELSE OccurrencesInClauses(arg.wcs, 1)
        /\ \A k \in 1..Len(ret.val) : ret.val[k].tag # "BoundVar"
        /\ (arg.v = "Ty" /\ arg.ty = Apply(AdtName(1), <<BoundVar(0, 0)>>)) =>
                ret.val = <<arg.ty>>

\* the types met outside any Function type in ty, d binders below the root,
\* each in the root's coordinates
RECURSIVE OutsideFunctions(_, _)
OutsideFunctions(ty, d) ==
    CASE ty.tag = "Function" -> {}
      [] ty.tag \in {"Apply", "Projection", "Opaque"} ->
            {AtRoot(ty, d)} \cup UNION {OutsideFunctions(ty.args[k], d) : k \in 1..Len(ty.args)}
      [] ty.tag = "Dyn" ->
            {AtRoot(ty, d)} \cup UNION {
                IF ty.clauses[k].wc = "Implemented"
                THEN UNION {OutsideFunctions(ty.clauses[k].args[j], d + 2) :
                                j \in 1..Len(ty.clauses[k].args)}
                ELSE OutsideFunctions(ty.clauses[k].alias, d + 2)
                        \cup OutsideFunctions(ty.clauses[k].ty, d + 2) :
                k \in 1..Len(ty.clauses)}
      [] OTHER -> {ty}

\* C9: traversing a Function type returns the empty sequence, and a Function
\* type nested at any depth contributes neither itself nor a type of its
\* signature: what is returned is no Function type and is met outside every
\* Function type.
C9_FunctionTypesOpaque ==
    (op = "types_in" /\ arg.v = "Ty") =>
        /\ arg.ty.tag = "Function" => ret = Returned(<<>>)
        /\ ~ret.aborted =>
                \A k \in 1..Len(ret.val) :
                    /\ ret.val[k].tag # "Function"
                    /\ ret.val[k] \in OutsideFunctions(arg.ty, 0)

\* A<fn(B<C>)> returns only A<fn(B<C>)>
C9_Witness ==
    /\ op = "types_in"
    /\ arg.v = "Ty"
    /\ arg.ty = Apply(AdtName(1), <<Function(<<Apply(AdtName(1), <<Placeholder(0)>>)>>)>>)
    /\ ret = Returned(<<arg.ty>>)

-----------------------------------------------------------------------------
\* a verdict other than Ok was returned
Failed(r) == ~r.aborted /\ r.val # Ok

\* C11 (as stated): a failed verify_adt_decl(id) returns IllFormedTypeDecl(id),
\* and the error of a failed verify_trait_impl(impl_id) identifies impl_id:
\* the errors of two failed calls on distinct impls of one store differ.
C11_ErrorIdentifiesImpl ==
    [][ /\ (op' = "verify_adt_decl" /\ Failed(ret')) =>
              ret'.val = IllFormedTypeDecl(arg')
        /\ (/\ op = "verify_trait_impl" /\ Failed(ret)
            /\ op' = "verify_trait_impl" /\ Failed(ret')
            /\ arg # arg') => ret.val # ret'.val ]_vars

\* C11 (amended): a failed verify_adt_decl(id) returns IllFormedTypeDecl(id);
\* a failed verify_trait_impl(impl_id) returns IllFormedTraitImpl(t) with t
\* the trait of the impl's trait reference.
C11_ErrorCarriesTraitOfImpl ==
    /\ (op = "verify_adt_decl" /\ Failed(ret)) =>
          ret.val = IllFormedTypeDecl(arg)
    /\ (op = "verify_trait_impl" /\ Failed(ret)) =>
          ret.val = IllFormedTraitImpl(TheImpl.trait_ref.trait)

C11_Witness ==
    /\ op = "verify_trait_impl"
    /\ arg = 2
    /\ Len(db.impls) = 2
    /\ db.impls[1].trait_ref.trait # db.impls[2].trait_ref.trait
    /\ Failed(ret)
    /\ ret.val = IllFormedTraitImpl(db.impls[2].trait_ref.trait)

-----------------------------------------------------------------------------
\* the declaration verify_adt_decl was called on
TheAdt == adt_datum(db, arg)

AdtGoalSubmitted == op = "verify_adt_decl" /\ ~ret.aborted

\* WellFormed(t) for every type t the traversal of (fields, where-clauses)
\* returns
AdtWellFormedGoals ==
    MapSeq(WellFormedTy,
           types_in_fields_where_clauses(TheAdt.fields, TheAdt.where_clauses).types)

\* the Sized tail constraint of the fields: Implemented(f: Sized) for every
\* field f but the last, none for fewer than two fields or without a
\* well-known Sized trait
AdtSizedTail ==
    LET fields == TheAdt.fields
        sized == well_known_trait_id(db, "SizedTrait")
    IN IF Len(fields) <= 1 \/ sized = <<>> THEN <<>>
       ELSE <<All([i \in 1..(Len(fields) - 1) |->
                    ImplementedGoal(TraitRef(sized[1], <<fields[i]>>))])>>

\* C12: the goal verify_adt_decl submits is forall<P> { hyps => conj } with
\* hyps exactly from-env(w) for each where-clause w, in order, and conj the
\* conjunction of WellFormed(t) for every t of the traversal of (fields,
\* where-clauses) followed by the Sized tail constraint, which is thus
\* inside the implication.
C12_AdtGoalShape ==
    AdtGoalSubmitted =>
        LET goal == submitted[1] IN
        /\ goal.g = "Forall"
        /\ goal.n = TheAdt.n
        /\ goal.goal.g = "Implies"
        /\ goal.goal.hyps = MapSeq(into_from_env_goal, TheAdt.where_clauses)
        /\ goal.goal.goal.g = "All"
        /\ goal.goal.goal.goals = AdtWellFormedGoals \o AdtSizedTail

C12_Witness ==
    /\ AdtGoalSubmitted
    /\ Len(TheAdt.fields) = 3
    /\ Len(TheAdt.where_clauses) = 2
    /\ Len(submitted[1].goal.hyps) = 2
    /\ AdtSizedTail # <<>>
    /\ Len(AdtWellFormedGoals) >= 2
    /\ submitted[1].goal.goal.goals[Len(AdtWellFormedGoals) + 1].g = "All"

-----------------------------------------------------------------------------
\* ty, met d binders below the root of a traversal, holds an inference
\* variable outside every function type, or a recordable type that mentions
\* a variable bound by one of the binders crossed since the root
RECURSIVE Defective(_, _), DefectiveClauses(_, _)
Defective(ty, d) ==
    CASE ty.tag = "InferenceVar" -> TRUE
      [] ty.tag \in {"Apply", "Projection", "Opaque"} ->
            \/ ~CanShiftOut(ty, d, 0)
            \/ \E k \in 1..Len(ty.args) : Defective(ty.args[k], d)
      [] ty.tag = "Dyn" ->
            ~CanShiftOut(ty, d, 0) \/ DefectiveClauses(ty.clauses, d + 2)
      [] OTHER -> FALSE

\* the same of the types the traversal visits in a list of where-clauses
\* met d binders below the root
DefectiveClauses(cs, d) ==
    \E k \in 1..Len(cs) :
        IF cs[k].wc = "Implemented"
        THEN \E j \in 1..Len(cs[k].args) : Defective(cs[k].args[j], d)
        ELSE Defective(cs[k].alias, d)

DefectiveTys(tys) == \E k \in 1..Len(tys) : Defective(tys[k], 0)

\* what verify_adt_decl traverses: the fields and the where-clauses
AdtTraversalDefective ==
    DefectiveTys(TheAdt.fields) \/ DefectiveClauses(TheAdt.where_clauses, 1)

\* what verify_trait_impl traverses: the where-clauses and the trait
\* reference of a positive impl, and for each associated type value the
\* trait reference and the value's type
ImplTraversalDefective ==
    \/ /\ is_positive(TheImpl)
       /\ \/ DefectiveClauses(TheImpl.where_clauses, 1)
          \/ DefectiveTys(TheImpl.trait_ref.args)
    \/ \E k \in 1..Len(TheImpl.associated_ty_value_ids) :
          \/ DefectiveTys(TheImpl.trait_ref.args)
          \/ Defective(associated_ty_value(db, TheImpl.associated_ty_value_ids[k]).ty, 0)

AbortedUnsolved == ret = Aborted /\ submitted = <<>> /\ outcome = "NotCalled"

\* C13: when the traversal of verify_adt_decl or verify_trait_impl reaches
\* an inference variable, or a recordable type under an inner binder that
\* mentions a variable of that binder, the call aborts: it returns neither
\* Ok nor an error, and the solver is not called.
C13_DefectsAbortTheCall ==
    /\ (op = "verify_adt_decl" /\ AdtTraversalDefective) => AbortedUnsolved
    /\ (op = "verify_trait_impl" /\ ImplTraversalDefective) => AbortedUnsolved

\* an escaping type inside a dyn type of a where-clause of the declaration
C13_Witness ==
    /\ op = "verify_adt_decl"
    /\ TheAdt.where_clauses = <<Implemented("Foo", <<BoundVar(1, 0), EscapingDyn>>)>>
    /\ ~DefectiveTys(TheAdt.fields)
    /\ AdtTraversalDefective
    /\ AbortedUnsolved

-----------------------------------------------------------------------------
\* the associated type value compute_assoc_ty_goal was called on, its impl
\* and the declaration of the associated type
TheValue == associated_ty_value(db, arg)

ValueImpl == impl_datum(db, TheValue.impl_id)

ValueDatum == associated_ty_data(db, TheValue.associated_ty_id)

AssocGoalReturned == op = "compute_assoc_ty_goal" /\ ~ret.aborted

\* the impl parameters derived from the value's substitution: the variables
\* of the value's binder that follow the value's own parameters
ValueImplParams ==
    [k \in 1..ValueImpl.n |-> BoundVar(0, TheValue.n - ValueImpl.n + k - 1)]

\* the projection's substitution: the value's own parameters, then the
\* arguments of the impl's trait reference
ValueProjectionSubst ==
    [k \in 1..(TheValue.n - ValueImpl.n) |-> BoundVar(0, k - 1)]
        \o SubstTys(ValueImpl.trait_ref.args, ValueImplParams)

\* the impl-level environment of the substituted where-clauses and trait
\* reference
ValueImplEnvironment ==
    MapSeq(into_from_env_goal, SubstQwcs(ValueImpl.where_clauses, ValueImplParams))
        \o MapSeq(FromEnvTy,
                  InputTypesOfEach(SubstTys(ValueImpl.trait_ref.args, ValueImplParams)))

\* the where-clauses of declared bound k with the value's type as self type
BoundWhereClauses(k) ==
    into_where_clauses(SubstBound(ValueDatum.bounds[k], ValueProjectionSubst),
                       TheValue.ty)

\* C14: the goal of compute_assoc_ty_goal is forall over the value's binder
\* of env => (declared => conj): env the impl-level environment of the
\* impl's where-clauses and trait reference under the impl parameters,
\* declared from-env of the associated type's declared where-clauses under
\* the projection's substitution, conj WellFormed(t) for every input type t
\* of the value's type followed by the well-formed goal of every
\* where-clause of every declared bound applied to the value's type, at
\* least one per bound; nothing stands outside the two implications.
C14_AssocTyGoalShape ==
    AssocGoalReturned =>
        LET goal == ret.val[1]
            wf_goals == MapSeq(WellFormedTy, types_in_ty(TheValue.ty).types)
            bound_goals ==
                Flatten([k \in 1..Len(ValueDatum.bounds) |->
                            MapSeq(into_well_formed_goal, BoundWhereClauses(k))])
        IN /\ Len(ret.val) = 1
           /\ goal.g = "Forall"
           /\ goal.n = TheValue.n
           /\ goal.goal.g = "Implies"
           /\ goal.goal.hyps = ValueImplEnvironment
           /\ goal.goal.goal.g = "Implies"
           /\ goal.goal.goal.hyps =
                 MapSeq(into_from_env_goal,
                        SubstQwcs(ValueDatum.where_clauses, ValueProjectionSubst))
           /\ goal.goal.goal.goal.g = "All"
           /\ goal.goal.goal.goal.goals = wf_goals \o bound_goals
           /\ \A k \in 1..Len(ValueDatum.bounds) : Len(BoundWhereClauses(k)) >= 1
           /\ Len(goal.goal.goal.goal.goals) >= Len(wf_goals) + Len(ValueDatum.bounds)

\* type A<U> = Vec<T> of impl<T> Foo<Vec<X>> for S<Vec<T>> where T: Clone
C14_Witness ==
    /\ AssocGoalReturned
    /\ arg = 1
    /\ ValueImpl.where_clauses = <<Implemented("Clone", <<BoundVar(1, 0)>>)>>
    /\ Len(ValueImpl.trait_ref.args) = 2
    /\ ret.val[1].n = 2
    /\ ret.val[1].goal.hyps[1] =
            into_from_env_goal(Implemented("Clone", <<BoundVar(1, 1)>>))
    /\ ret.val[1].goal.goal.hyps =
            <<into_from_env_goal(Implemented("Foo", <<BoundVar(1, 0)>>))>>
    /\ ret.val[1].goal.goal.goal.goals =
            << WellFormedTy(Apply(AdtName(2), <<BoundVar(0, 1)>>)),
               into_well_formed_goal(
                   Implemented("Clone", <<Apply(AdtName(2), <<BoundVar(1, 1)>>)>>)) >>

====
